---- MODULE Spec2Model ----
(***************************************************************************)
(* CoAP endpoint for the SAUL registry (saul_coap.c).                      *)
(*                                                                         *)
(* One action per resource handler of _resources[].  Receive draws a       *)
(* request (path, reply buffer length, token length, body, query); the     *)
(* handler of the path runs on it, with the driver's read outcome drawn    *)
(* when it reads, and leaves its response; Listen waits for the next one.  *)
(*                                                                         *)
(* Text is a sequence of one-character strings.  The reply buffer is       *)
(* recorded as the bytes the handler stored from pdu->payload on, whether  *)
(* or not they stay inside the buffer: bytes stored past pdu->payload_len  *)
(* land in the memory that follows the buffer.                             *)
(***************************************************************************)
EXTENDS Integers, Sequences, FiniteSets, TLC

VARIABLES
    saul_reg,   \* the registry: the list of devices, in registration order
    handler,    \* path of the resource the request is for ("none" when idle)
    len,        \* length of the reply buffer buf given to the handler
    tkl,        \* token length of the request (the header is 4 + tkl bytes)
    body,       \* request payload (used by /saul/dev)
    query,      \* request URI query, options joined by "&" (used by /sensor)
    code,       \* response code left in the header, "none" if none was set
    payload,    \* bytes the handler stored starting at pdu->payload
    ret,        \* the handler's return value: the length of the response
    calls,      \* registry operations invoked for the request, in order
    fault,      \* TRUE when the handler dereferenced a null pointer and trapped
    pc          \* "idle", "request" (handler called) or "response" (handler done)

vars == <<pc, saul_reg, handler, len, tkl, body, query, code, payload, ret, calls, fault>>

(***************************************************************************)
(* Bounds of the model.                                                    *)
(***************************************************************************)
MaxCap == 17    \* payload capacities 0..MaxCap are tried
MaxTkl == 1     \* token lengths 0..MaxTkl are tried
MaxDevs == 11   \* registries of 0..MaxDevs devices are tried

(***************************************************************************)
(* Program constants.                                                      *)
(***************************************************************************)
COAP_CODE_204 == "2.04"
COAP_CODE_CONTENT == "2.05"
COAP_CODE_BAD_REQUEST == "4.00"
COAP_CODE_404 == "4.04"
COAP_CODE_INTERNAL_SERVER_ERROR == "5.00"

\* device classes of saul.h
SAUL_CLASS_UNDEF == 0
SAUL_ACT_SERVO == 67
SAUL_SENSE_TEMP == 130
SAUL_SENSE_HUM == 131
SAUL_SENSE_PRESS == 137
SAUL_SENSE_VOLTAGE == 152

ReqPaylMax == 5         \* longest request body /saul/dev parses
QuerySizeMin == 9       \* smallest query size /sensor accepts
QuerySizeMax == 11      \* largest query size /sensor accepts
TypeOffset == 7         \* offset of the number in "&class=123"
TypeDigits == 3         \* characters copied into type_number
SizeofInt == 4          \* sizeof(pos)
CoapHdrBase == 4        \* fixed CoAP header, followed by the token
FormatOptLen == 1       \* Content-Format option of value 0: one byte
PayloadMarkerLen == 1   \* the 0xFF payload marker
Uint8Mod == 256         \* uint8_t type
Uint16Mod == 65536      \* uint16_t argument of fmt_u16_dec

NULL == 0

(***************************************************************************)
(* Text helpers.                                                           *)
(***************************************************************************)
Digits == <<"0", "1", "2", "3", "4", "5", "6", "7", "8", "9">>

IsDigit(c) == \E d \in 1..10 : Digits[d] = c

DigitVal(c) == (CHOOSE d \in 1..10 : Digits[d] = c) - 1

IsSpace(c) == c \in {" ", "\t", "\n"}

Min(a, b) == IF a < b THEN a ELSE b

Take(s, n) == SubSeq(s, 1, Min(n, Len(s)))

Drop(s, n) == SubSeq(s, n + 1, Len(s))

\* u32 decimal of fmt.c: count the characters, then fill from the last one
RECURSIVE DecLen(_, _, _)
DecLen(val, tmp, n) == IF tmp <= val THEN DecLen(val, tmp * 10, n + 1) ELSE n

RECURSIVE DecFill(_, _)
DecFill(val, n) ==
    IF n = 0 THEN <<>> ELSE Append(DecFill(val \div 10, n - 1), Digits[(val % 10) + 1])

fmt_u32_dec(val) == DecFill(val, DecLen(val, 10, 1))

\* fmt_u16_dec(out, val): the argument is converted to uint16_t
fmt_u16_dec(val) == fmt_u32_dec(val % Uint16Mod)

\* printf's %i
FmtInt(i) == IF i < 0 THEN <<"-">> \o fmt_u32_dec(-i) ELSE fmt_u32_dec(i)

\* the common front of strtoul and atoi: white space, a sign, decimal digits
RECURSIVE SkipSpace(_)
SkipSpace(s) == IF s # <<>> /\ IsSpace(Head(s)) THEN SkipSpace(Tail(s)) ELSE s

RECURSIVE DigitsValue(_, _)
DigitsValue(s, acc) ==
    IF s # <<>> /\ IsDigit(Head(s))
    THEN DigitsValue(Tail(s), acc * 10 + DigitVal(Head(s)))
    ELSE acc

ParseDec(s) ==
    LET t == SkipSpace(s)
        neg == t # <<>> /\ Head(t) = "-"
        u == IF t # <<>> /\ Head(t) \in {"-", "+"} THEN Tail(t) ELSE t
        v == DigitsValue(u, 0)
    IN  IF neg THEN -v ELSE v

\* pos = strtoul(req_payl, NULL, 10): the unsigned long is converted to the
\* 32-bit int pos.  A body of at most 5 characters gives a magnitude v below
\* 100000; with a minus sign strtoul yields 2^32 - v, which converts to -v.
strtoul(s) == ParseDec(s)

atoi(s) == ParseDec(s)

\* mutant of Fits: the comparison is off by one
FitsOffByOne(payload_len, text) == payload_len + 1 >= Len(text)

\* pdu->payload_len >= strlen(text)
Fits(payload_len, text) == payload_len >= Len(text)

ErrDevNotFound ==
    <<"d","e","v","i","c","e"," ","n","o","t"," ","f","o","u","n","d">>

ErrNoValues ==
    <<"n","o"," ","v","a","l","u","e","s"," ","f","o","u","n","d">>

(***************************************************************************)
(* The registry (saul_reg.h).                                              *)
(***************************************************************************)
saul_class_to_str(type) ==
    CASE type = SAUL_SENSE_TEMP -> <<"S","E","N","S","E","_","T","E","M","P">>
      [] type = SAUL_SENSE_HUM -> <<"S","E","N","S","E","_","H","U","M">>
      [] type = SAUL_SENSE_PRESS -> <<"S","E","N","S","E","_","P","R","E","S","S">>
      [] type = SAUL_SENSE_VOLTAGE ->
            <<"S","E","N","S","E","_","V","O","L","T","A","G","E">>
      [] type = SAUL_ACT_SERVO -> <<"A","C","T","_","S","E","R","V","O">>
      [] type = SAUL_CLASS_UNDEF -> <<"C","L","A","S","S","_","U","N","D","E","F">>
      [] OTHER -> <<"C","L","A","S","S","_","U","N","K","N","O","W","N">>

\* saul_reg_find_nth(pos): walk pos links from the head; 0 is NULL
saul_reg_find_nth(reg, pos) ==
    IF pos < 0 THEN (IF reg = <<>> THEN NULL ELSE 1)
    ELSE IF pos < Len(reg) THEN pos + 1 ELSE NULL

\* saul_reg_find_type(type): the first device of the type; 0 is NULL
saul_reg_find_type(reg, type) ==
    IF \E i \in 1..Len(reg) : reg[i].type = type
    THEN CHOOSE i \in 1..Len(reg) :
            reg[i].type = type /\ \A j \in 1..(i - 1) : reg[j].type # type
    ELSE NULL

\* mutant of CountDevices: the loop stops at the device whose next is NULL
CountUntilLast(reg, i) == IF reg = <<>> THEN i ELSE i + Len(reg) - 1

\* the loop of _saul_cnt_handler: follow next until NULL
RECURSIVE CountDevices(_, _)
CountDevices(reg, i) == IF reg = <<>> THEN i ELSE CountDevices(Tail(reg), i + 1)

(***************************************************************************)
(* gcoap response framing (net/gcoap.h), as the handlers use it.           *)
(***************************************************************************)
\* coap_get_total_hdr_len: the fixed header and the token
HdrLen(t) == CoapHdrBase + t

\* gcoap_resp_init, coap_opt_add_format(TEXT), coap_opt_finish(PAYLOAD):
\* the returned resp_len is the offset of the payload in buf
coap_opt_finish(t) == HdrLen(t) + FormatOptLen + PayloadMarkerLen

\* pdu->payload_len once the options are finished
PayloadLen(l, t) == l - coap_opt_finish(t)

\* gcoap_response(pdu, buf, len, code): re-initialises the response with the
\* code and no option; returns the length of the header alone
gcoap_response(t) == HdrLen(t)

Response(c, p, r, k) == [code |-> c, payload |-> p, ret |-> r, calls |-> k, fault |-> FALSE]

\* a null-pointer access that traps: the handler never returns
Trapped(k) == [code |-> "none", payload |-> <<>>, ret |-> 0, calls |-> k, fault |-> TRUE]

(***************************************************************************)
(* _sense_type_responder                                                   *)
(***************************************************************************)
\* rd is what saul_reg_read yields when it is called: [dim, val] with val = res.val[0]
_sense_type_responder(reg, l, t, type, rd) ==
    LET dev == saul_reg_find_type(reg, type)
        resp_len == coap_opt_finish(t)
        payload_len == PayloadLen(l, t)
        found == <<<<"saul_reg_find_type", type>>>>
        read == Append(found, <<"saul_reg_read", dev, rd.dim, rd.val>>)
    IN  IF dev = NULL
        THEN IF Fits(payload_len, ErrDevNotFound)
             THEN Response(COAP_CODE_404, ErrDevNotFound,
                           resp_len + gcoap_response(t), found)
             ELSE Response(COAP_CODE_404, <<>>, gcoap_response(t), found)
        ELSE IF rd.dim <= 0
        THEN IF Fits(payload_len, ErrNoValues)
             THEN Response(COAP_CODE_404, ErrNoValues,
                           resp_len + gcoap_response(t), read)
             ELSE Response(COAP_CODE_404, <<>>, gcoap_response(t), read)
        ELSE LET text == fmt_u16_dec(rd.val)
             IN  Response(COAP_CODE_CONTENT, text, resp_len + Len(text), read)

(***************************************************************************)
(* _saul_sensortype_handler                                                *)
(***************************************************************************)
\* coap_get_uri_query: "&" before each option and the final NUL are counted
coap_get_uri_query(q) == IF q = <<>> THEN 1 ELSE Len(q) + 2

\* mutant of SizeAccepted: the upper limit is not checked
SizeAtLeastMin(size) == ~(size < QuerySizeMin)

SizeAccepted(size) == ~(size < QuerySizeMin \/ size > QuerySizeMax)

\* strncpy(type_number, query + 7, 3) on the zero-filled query buffer
TypeNumber(q) ==
    LET full == <<"&">> \o q
    IN  Take(Drop(full, TypeOffset), TypeDigits)

\* uint8_t type = atoi(type_number)
TypeOf(q) == atoi(TypeNumber(q)) % Uint8Mod

saul_sensortype_response(reg, l, t, q, rd) ==
    IF ~SizeAccepted(coap_get_uri_query(q))
    THEN Response(COAP_CODE_BAD_REQUEST, <<>>, gcoap_response(t), <<>>)
    ELSE _sense_type_responder(reg, l, t, TypeOf(q), rd)

(***************************************************************************)
(* _saul_cnt_handler                                                       *)
(***************************************************************************)
saul_cnt_response(reg, t) ==
    LET resp_len == coap_opt_finish(t)
        text == fmt_u16_dec(CountDevices(reg, 0))
    IN  Response(COAP_CODE_CONTENT, text, resp_len + Len(text), <<<<"saul_reg">>>>)

(***************************************************************************)
(* _saul_dev_handler                                                       *)
(***************************************************************************)
\* "%i,%s,%s\n"
DevInfoText(pos, class_str, dev_name) ==
    FmtInt(pos) \o <<",">> \o class_str \o <<",">> \o dev_name \o <<"\n">>

\* payl_size = class_size + dev_size + sizeof(pos)
PaylSize(class_str, dev_name) == Len(class_str) + Len(dev_name) + SizeofInt

\* What snprintf(payl, ...) with payl = NULL leaves for strlen(payl) to read:
\* the access traps, or address 0 is writable memory and holds the output cut
\* to payl_size - 1 characters, or address 0 is read-only and holds whatever
\* text is stored there.
NullTexts == {<<>>, <<"?">>}

NullOutcomes ==
    [kind : {"trap", "stored"}, text : {<<>>}] \cup [kind : {"rom"}, text : NullTexts]

PaylAtNull(ub, pos, class_str, dev_name) ==
    IF ub.kind = "stored"
    THEN Take(DevInfoText(pos, class_str, dev_name), PaylSize(class_str, dev_name) - 1)
    ELSE ub.text

\* mutant of DevNotFound: an undersized buffer is answered like the
\* Type-Responder does, with not-found and no payload
DevNotFoundAlways404(payload_len, resp_len, t, k) ==
    IF Fits(payload_len, ErrDevNotFound)
    THEN Response(COAP_CODE_404, ErrDevNotFound, resp_len + Len(ErrDevNotFound), k)
    ELSE Response(COAP_CODE_404, <<>>, gcoap_response(t), k)

\* the branch if (!dev)
DevNotFound(payload_len, resp_len, t, k) ==
    IF Fits(payload_len, ErrDevNotFound)
    THEN Response(COAP_CODE_404, ErrDevNotFound, resp_len + Len(ErrDevNotFound), k)
    ELSE Response(COAP_CODE_INTERNAL_SERVER_ERROR, <<>>, gcoap_response(t), k)

saul_dev_response(reg, l, t, b, ub) ==
    IF ~(Len(b) <= ReqPaylMax)
    THEN Response(COAP_CODE_BAD_REQUEST, <<>>, gcoap_response(t), <<>>)
    ELSE
    LET pos == strtoul(b)
        resp_len == coap_opt_finish(t)
        payload_len == PayloadLen(l, t)
        dev == saul_reg_find_nth(reg, pos)
        k == <<<<"saul_reg_find_nth", pos>>>>
    IN  IF dev = NULL
        THEN DevNotFound(payload_len, resp_len, t, k)
        ELSE IF ub.kind = "trap" THEN Trapped(k)
        ELSE LET payl == PaylAtNull(ub, pos, saul_class_to_str(reg[dev].type),
                                    reg[dev].name)
             IN  IF Fits(payload_len, payl)
                 THEN Response(COAP_CODE_204, payl, resp_len + Len(payl), k)
                 ELSE Response(COAP_CODE_INTERNAL_SERVER_ERROR, <<>>,
                               gcoap_response(t), k)

(***************************************************************************)
(* Requests and registry contents tried.                                   *)
(***************************************************************************)
TypeCycle ==
    <<SAUL_SENSE_TEMP, SAUL_SENSE_HUM, SAUL_ACT_SERVO, SAUL_CLASS_UNDEF,
      SAUL_SENSE_PRESS, SAUL_SENSE_VOLTAGE>>

\* device i of the pool: its type cycles, its name is "d" and its number
PoolDevice(i) ==
    [type |-> TypeCycle[((i - 1) % Len(TypeCycle)) + 1],
     name |-> <<"d">> \o fmt_u32_dec(i)]

Registries == {[i \in 1..n |-> PoolDevice(i)] : n \in 0..MaxDevs}

Lens(t) == coap_opt_finish(t)..(coap_opt_finish(t) + MaxCap)

ReadOutcomes ==
    [dim : {-125, 0}, val : {0}] \cup
    [dim : {1, 3}, val : {-32768, -1, 0, 7, 12345, 32767}]

Bodies ==
    { <<>>, <<"0">>, <<"1">>, <<"2">>, <<"7">>, <<"1","0">>, <<"1","2">>,
      <<"0","0","0","0","1">>, <<"9","9","9","9","9">>,
      <<"x">>, <<"1","x">>, <<" ","1">>, <<"-","1">>, <<"+","2">>,
      <<"1","2","3","4","5","6">>, <<"0","0","0","0","0","1">> }

Queries ==
    { <<>>,
      <<"c","=","1">>,
      <<"c","l","a","s","s","=">>,
      <<"c","l","a","s","s","=","0">>,
      <<"c","l","a","s","s","=","6","7">>,
      <<"c","l","a","s","s","=","1","3","0">>,
      <<"c","l","a","s","s","=","1","3","1">>,
      <<"c","l","a","s","s","=","3","8","6">>,
      <<"c","l","a","s","s","=","-","1">>,
      <<"c","l","a","s","s","=","a","b","c">>,
      <<"c","l","a","s","s","=","1","3","x">>,
      <<"x","y","z","z","y","=","1","3","0">>,
      <<"a","=","1","&","b","=","1","3","1">>,
      <<"c","l","a","s","s","=","1","3","0","0">>,
      <<"c","l","a","s","s","=","0","0","1","3","0">> }

(***************************************************************************)
(* The state machine.                                                      *)
(***************************************************************************)
\* _resources[]: path |-> handler, sorted by path
Paths == <<"/hum", "/press", "/saul/cnt", "/saul/dev", "/sensor", "/servo", "/temp", "/voltage">>

Init ==
    /\ saul_reg \in Registries
    /\ pc = "idle"
    /\ handler = "none"
    /\ len = 0
    /\ tkl = 0
    /\ body = <<>>
    /\ query = <<>>
    /\ code = "none"
    /\ payload = <<>>
    /\ ret = 0
    /\ calls = <<>>
    /\ fault = FALSE

\* gcoap receives a request and selects the entry of _resources[] whose path
\* matches; the handler of the entry is called with the reply buffer
Receive ==
    /\ pc = "idle"
    /\ \E i \in 1..Len(Paths) : \E t \in 0..MaxTkl : \E l \in Lens(t) :
        /\ handler' = Paths[i]
        /\ len' = l
        /\ tkl' = t
        /\ body' \in (IF Paths[i] = "/saul/dev" THEN Bodies ELSE {<<>>})
        /\ query' \in (IF Paths[i] = "/sensor" THEN Queries ELSE {<<>>})
    /\ pc' = "request"
    /\ UNCHANGED <<saul_reg, code, payload, ret, calls, fault>>

\* the handler runs on the request and leaves its response
Serve(h, r) ==
    /\ pc = "request"
    /\ handler = h
    /\ pc' = "response"
    /\ code' = r.code
    /\ payload' = r.payload
    /\ ret' = r.ret
    /\ calls' = r.calls
    /\ fault' = r.fault
    /\ UNCHANGED <<saul_reg, handler, len, tkl, body, query>>

TypeHandler(h, type) ==
    \E rd \in ReadOutcomes :
        Serve(h, _sense_type_responder(saul_reg, len, tkl, type, rd))

_sense_temp_handler == TypeHandler("/temp", SAUL_SENSE_TEMP)

_sense_hum_handler == TypeHandler("/hum", SAUL_SENSE_HUM)

_sense_servo_handler == TypeHandler("/servo", SAUL_ACT_SERVO)

_sense_press_handler == TypeHandler("/press", SAUL_SENSE_PRESS)

_sense_voltage_handler == TypeHandler("/voltage", SAUL_SENSE_VOLTAGE)

_saul_sensortype_handler ==
    \E rd \in ReadOutcomes :
        Serve("/sensor", saul_sensortype_response(saul_reg, len, tkl, query, rd))

_saul_cnt_handler == Serve("/saul/cnt", saul_cnt_response(saul_reg, tkl))

_saul_dev_handler ==
    \E ub \in NullOutcomes :
        Serve("/saul/dev", saul_dev_response(saul_reg, len, tkl, body, ub))

\* the response has been sent (or the node has trapped and restarted): the
\* listener waits for the next request
Listen ==
    /\ pc = "response"
    /\ pc' = "idle"
    /\ handler' = "none"
    /\ len' = 0
    /\ tkl' = 0
    /\ body' = <<>>
    /\ query' = <<>>
    /\ code' = "none"
    /\ payload' = <<>>
    /\ ret' = 0
    /\ calls' = <<>>
    /\ fault' = FALSE
    /\ UNCHANGED saul_reg

Next ==
    \/ Receive
    \/ _sense_temp_handler
    \/ _sense_hum_handler
    \/ _sense_servo_handler
    \/ _sense_press_handler
    \/ _sense_voltage_handler
    \/ _saul_sensortype_handler
    \/ _saul_cnt_handler
    \/ _saul_dev_handler
    \/ Listen

Spec == Init /\ [][Next]_vars

(***************************************************************************)
(* Vocabulary of the properties.                                           *)
(***************************************************************************)
Responded == pc = "response"

\* payload capacity of the request: what is left of buf for the payload
Cap == PayloadLen(len, tkl)

\* offset of the payload in the response
RespLen == coap_opt_finish(tkl)

\* decimal text of a natural number, most significant digit first
RECURSIVE DecText(_)
DecText(n) ==
    IF n < 10 THEN <<Digits[n + 1]>> ELSE Append(DecText(n \div 10), Digits[(n % 10) + 1])

\* decimal text of an integer
SignedDecText(i) == IF i < 0 THEN <<"-">> \o DecText(-i) ELSE DecText(i)

AllDigits(s) == \A k \in 1..Len(s) : IsDigit(s[k])

\* value of a text of decimal digits
RECURSIVE DecValue(_)
DecValue(s) ==
    IF s = <<>> THEN 0
    ELSE 10 * DecValue(SubSeq(s, 1, Len(s) - 1)) + DigitVal(s[Len(s)])

\* a request body that is an unsigned decimal index of bounded length
WellFormedBody(b) == Len(b) \in 1..ReqPaylMax /\ AllDigits(b)

AdapterType ==
    [h \in {"/temp", "/hum", "/servo", "/press", "/voltage"} |->
        CASE h = "/temp" -> SAUL_SENSE_TEMP
          [] h = "/hum" -> SAUL_SENSE_HUM
          [] h = "/servo" -> SAUL_ACT_SERVO
          [] h = "/press" -> SAUL_SENSE_PRESS
          [] h = "/voltage" -> SAUL_SENSE_VOLTAGE]

ByAdapter == Responded /\ handler \in DOMAIN AdapterType

HasType(type) == \E i \in 1..Len(saul_reg) : saul_reg[i].type = type

\* the last registry operation of the request was a read
WasRead == calls # <<>> /\ calls[Len(calls)][1] = "saul_reg_read"

ReadDim == calls[Len(calls)][3]

ReadVal == calls[Len(calls)][4]

\* the Type-Responder ran (an adapter, or /sensor past its length filter)
ByResponder == Responded /\ calls # <<>> /\ calls[1][1] = "saul_reg_find_type"

\* paths of the Type-Responder
LookupMiss == ByResponder /\ ~HasType(calls[1][2])

EmptyReading == ByResponder /\ WasRead /\ ReadDim <= 0

\* path of Device-Info: the lookup by position found no device
DevAbsent ==
    /\ Responded /\ handler = "/saul/dev" /\ calls # <<>>
    /\ saul_reg_find_nth(saul_reg, calls[1][2]) = NULL

\* the response is a header alone
HeaderOnly == payload = <<>> /\ ret = CoapHdrBase + tkl

(***************************************************************************)
(* C1: the number of payload bytes a handler writes into the reply buffer  *)
(* never exceeds the payload capacity left for the request.                *)
(***************************************************************************)
C1_PayloadWithinCapacity == Responded => Len(payload) <= Cap

(***************************************************************************)
(* C2 as stated: when the capacity is smaller than the error message, the  *)
(* failure paths (lookup miss and empty reading of the Type-Responder,     *)
(* device absent of Device-Info) embed nothing and return internal-error.  *)
(***************************************************************************)
C2_FailureIsInternalError ==
    /\ LookupMiss /\ Cap < Len(ErrDevNotFound)
        => code = COAP_CODE_INTERNAL_SERVER_ERROR /\ payload = <<>>
    /\ EmptyReading /\ Cap < Len(ErrNoValues)
        => code = COAP_CODE_INTERNAL_SERVER_ERROR /\ payload = <<>>
    /\ DevAbsent /\ Cap < Len(ErrDevNotFound)
        => code = COAP_CODE_INTERNAL_SERVER_ERROR /\ payload = <<>>

(***************************************************************************)
(* C2 amended: when the capacity is smaller than the error message, no     *)
(* failure path embeds any part of the message; Device-Info's              *)
(* device-absent path returns internal-error, the Type-Responder's lookup  *)
(* miss and empty reading return not-found, each as a header alone.        *)
(***************************************************************************)
C2_FailureEmbedsNothing ==
    /\ LookupMiss /\ Cap < Len(ErrDevNotFound)
        => code = COAP_CODE_404 /\ HeaderOnly
    /\ EmptyReading /\ Cap < Len(ErrNoValues)
        => code = COAP_CODE_404 /\ HeaderOnly
    /\ DevAbsent /\ Cap < Len(ErrDevNotFound)
        => code = COAP_CODE_INTERNAL_SERVER_ERROR /\ HeaderOnly

C2_Witness ==
    /\ EmptyReading /\ Cap = Len(ErrNoValues) - 1
    /\ code = COAP_CODE_404 /\ payload = <<>>

(***************************************************************************)
(* C3: for an index i in [0, count()) sent as the body and a capacity in   *)
(* which the descriptor fits, Device-Info returns no-content with the      *)
(* payload exactly "{i},{class},{name}\n" of the device at position i and  *)
(* a reported length that covers exactly that text.                        *)
(***************************************************************************)
Descriptor(i) ==
    DecText(i) \o <<",">> \o saul_class_to_str(saul_reg[i + 1].type) \o <<",">>
        \o saul_reg[i + 1].name \o <<"\n">>

C3_DevInfoDescriptor ==
    (/\ Responded /\ handler = "/saul/dev" /\ WellFormedBody(body)
     /\ DecValue(body) < Len(saul_reg)
     /\ Cap >= Len(Descriptor(DecValue(body))))
    => /\ code = COAP_CODE_204
       /\ payload = Descriptor(DecValue(body))
       /\ ret = RespLen + Len(Descriptor(DecValue(body)))

(***************************************************************************)
(* C4 as stated: for every index i >= count() sent as a well-formed body,  *)
(* Device-Info returns not-found.                                          *)
(***************************************************************************)
C4_BeyondCountIsNotFound ==
    (/\ Responded /\ handler = "/saul/dev" /\ WellFormedBody(body)
     /\ DecValue(body) >= Len(saul_reg))
    => code = COAP_CODE_404

(***************************************************************************)
(* C4 amended: for every index i >= count() sent as a well-formed body,    *)
(* Device-Info returns not-found with the message "device not found" when  *)
(* the capacity holds the message, and internal-error otherwise.           *)
(***************************************************************************)
C4_BeyondCountNotFoundIfFits ==
    (/\ Responded /\ handler = "/saul/dev" /\ WellFormedBody(body)
     /\ DecValue(body) >= Len(saul_reg))
    => IF Cap >= Len(ErrDevNotFound)
       THEN /\ code = COAP_CODE_404
            /\ payload = ErrDevNotFound
            /\ ret = RespLen + Len(ErrDevNotFound)
       ELSE code = COAP_CODE_INTERNAL_SERVER_ERROR /\ HeaderOnly

C4_Witness ==
    /\ Responded /\ handler = "/saul/dev" /\ WellFormedBody(body)
    /\ Len(saul_reg) > 0 /\ DecValue(body) = Len(saul_reg)
    /\ Cap >= Len(ErrDevNotFound) /\ code = COAP_CODE_404

(***************************************************************************)
(* C5: for each of the five type constants, when the registry has a device *)
(* of the type whose read returns dimension >= 1, the Type-Responder       *)
(* returns content with the decimal text of the reading's first value,     *)
(* negative values included.                                               *)
(***************************************************************************)
C5_DecimalOfFirstValue ==
    (ByAdapter /\ HasType(AdapterType[handler]) /\ WasRead /\ ReadDim >= 1)
    => code = COAP_CODE_CONTENT /\ payload = SignedDecText(ReadVal)

(***************************************************************************)
(* C6: in the Type-Responder a lookup miss and an empty reading are        *)
(* not-found; when the message fits, the payload is the whole message and  *)
(* the reported length is the payload offset plus the message; when it     *)
(* does not, the payload is empty; a lookup miss never reads the device.   *)
(***************************************************************************)
NotFoundWith(msg) ==
    /\ code = COAP_CODE_404
    /\ IF Cap >= Len(msg)
       THEN payload = msg /\ ret = RespLen + Len(msg)
       ELSE payload = <<>>

C6_NotFoundMessage ==
    /\ LookupMiss => NotFoundWith(ErrDevNotFound) /\ ~WasRead
    /\ EmptyReading => NotFoundWith(ErrNoValues)

(***************************************************************************)
(* C7: a query shorter than the minimal accepted length or longer than the *)
(* maximal is answered bad-request, and the registry is not invoked for    *)
(* the request (no find_by_type, no read).                                 *)
(***************************************************************************)
QueryOutOfRange ==
    \/ coap_get_uri_query(query) < QuerySizeMin
    \/ coap_get_uri_query(query) > QuerySizeMax

C7_OutOfRangeQueryRejected ==
    (Responded /\ handler = "/sensor" /\ QueryOutOfRange)
    => code = COAP_CODE_BAD_REQUEST /\ calls = <<>> /\ HeaderOnly

C7_Witness ==
    /\ Responded /\ handler = "/sensor"
    /\ coap_get_uri_query(query) > QuerySizeMax
    /\ Len(saul_reg) > 0
    /\ code = COAP_CODE_BAD_REQUEST /\ calls = <<>>

(***************************************************************************)
(* C8: for a registry of n devices the Count handler enumerates it once    *)
(* and returns content with the decimal text of n as payload; for no       *)
(* device the payload is "0".                                              *)
(***************************************************************************)
C8_CountIsDecimal ==
    (Responded /\ handler = "/saul/cnt")
    => /\ code = COAP_CODE_CONTENT
       /\ payload = DecText(Len(saul_reg))
       /\ ret = RespLen + Len(payload)
       /\ calls = << <<"saul_reg">> >>
       /\ (saul_reg = <<>> => payload = <<"0">>)

C8_Witness ==
    /\ Responded /\ handler = "/saul/cnt"
    /\ Len(saul_reg) = 10 /\ payload = <<"1", "0">>
    /\ code = COAP_CODE_CONTENT

(***************************************************************************)
(* C9: Device-Info answers a malformed body (longer than the bounded index *)
(* length, empty, or not all decimal digits) with bad-request and does not *)
(* look up the registry for it.                                            *)
(***************************************************************************)
C9_MalformedBodyRejected ==
    (Responded /\ handler = "/saul/dev" /\ ~WellFormedBody(body))
    => code = COAP_CODE_BAD_REQUEST /\ calls = <<>>

(***************************************************************************)
(* C10: for a query of accepted length, /sensor delegates to the           *)
(* Type-Responder with the integer written after "class=" as type, also    *)
(* above 255, and returns bad-request when the query is not                *)
(* class=<integer>.                                                        *)
(***************************************************************************)
ClassKey == <<"c", "l", "a", "s", "s", "=">>

IsClassQuery(q) ==
    /\ Len(q) > Len(ClassKey)
    /\ Take(q, Len(ClassKey)) = ClassKey
    /\ AllDigits(Drop(q, Len(ClassKey)))

C10_SensorDelegates ==
    (Responded /\ handler = "/sensor" /\ ~QueryOutOfRange)
    => IF IsClassQuery(query)
       THEN /\ calls # <<>>
            /\ calls[1] = <<"saul_reg_find_type", DecValue(Drop(query, Len(ClassKey)))>>
       ELSE code = COAP_CODE_BAD_REQUEST /\ calls = <<>>

====
